---- MODULE Spec2Model ----
(***************************************************************************)
(* ComplianceGuard: the check execution framework.                         *)
(*                                                                         *)
(*   BaseCheck.run          src/src/checks/base_check.py                   *)
(*   the five probes        src/src/checks/**                              *)
(*   run_all_checks,        src/dashboard.py                               *)
(*   calculate_stats                                                       *)
(*   run_single_check       src/run_check.py                               *)
(*                                                                         *)
(* Python values are written as follows.  A str is a TLA+ string.  None is *)
(* the string Null.  A member of an Enum is the string "Class.MEMBER" and  *)
(* its .value is given by EnumValue.  A dict is a function whose domain is *)
(* the set of its keys.  An evidence payload is opaque and is written as a *)
(* string that names its shape.                                            *)
(***************************************************************************)
EXTENDS Integers, Sequences, FiniteSets, TLC

VARIABLES
    probe,      \* the probe whose run() was invoked last (Null before any)
    lastCheck,  \* how the latest check() completed
    lastRun,    \* how the latest run() completed
    runs,       \* number of run() invocations so far
    now,        \* the clock read by datetime.now()
    checks,     \* the scan's ordered probe list
    idx,        \* position of the scan loop in checks (probes completed)
    results,    \* the scan's result list
    pc,         \* control state of the caller
    invoked,    \* the check() invocations of the scan, as probe positions in order
    running,    \* positions of the probes whose run() has started and not returned
    stats,      \* the statistics returned by calculate_stats (Null before any)
    categories, \* the results grouped by category, in first-seen order
    lastEnv,    \* the environment the latest check() of a single probe met
    timedOut,   \* positions of the scan's probes whose check() met a command timeout
    instance,   \* the attributes of the single probe, as they are now
    progress,   \* what the scan has told its progress widgets, in order
    calls,      \* number of calculate_stats calls so far
    heap,       \* the list objects that are shared by reference: address -> contents
    session,    \* st.session_state: the attributes set on it, as a dict
    scans,      \* clicks of 'Run Security Scan' so far
    summary     \* what the CLI printed under 'Results:' (NoSummary before it did)

vars == <<probe, lastCheck, lastRun, runs, now, checks, idx, results, pc,
          invoked, running, stats, categories, lastEnv, timedOut, instance,
          progress, calls, heap, session, scans, summary>>

----------------------------------------------------------------------------
(* Bounds of the model *)

\* longest probe list of a scan that is not the dashboard's own
MaxProbes == 2
\* run() invocations of one caller in the single-probe specification
MaxRuns == 2
\* lines of softwareupdate output
MaxLines == 2
\* longest result list handed to the aggregator
MaxResults == 5
\* calculate_stats calls on one result list
MaxCalls == 2
\* clicks of 'Run Security Scan' in one session
MaxScans == 2

----------------------------------------------------------------------------
(* Python values *)

Null == "null"

EmptyDict == <<>>

\* dict.get(key, default)
get(d, key, default) == IF key \in DOMAIN d THEN d[key] ELSE default

CheckStatusMembers ==
    {"CheckStatus.PASS", "CheckStatus.FAIL", "CheckStatus.WARNING",
     "CheckStatus.ERROR", "CheckStatus.NOT_APPLICABLE"}

SeverityMembers ==
    {"Severity.CRITICAL", "Severity.HIGH", "Severity.MEDIUM", "Severity.LOW",
     "Severity.INFO"}

\* the objects that have a .value attribute
EnumMembers == CheckStatusMembers \cup SeverityMembers

EnumValue(m) ==
    CASE m = "CheckStatus.PASS" -> "PASS"
      [] m = "CheckStatus.FAIL" -> "FAIL"
      [] m = "CheckStatus.WARNING" -> "WARNING"
      [] m = "CheckStatus.ERROR" -> "ERROR"
      [] m = "CheckStatus.NOT_APPLICABLE" -> "NOT_APPLICABLE"
      [] m = "Severity.CRITICAL" -> "CRITICAL"
      [] m = "Severity.HIGH" -> "HIGH"
      [] m = "Severity.MEDIUM" -> "MEDIUM"
      [] m = "Severity.LOW" -> "LOW"
      [] m = "Severity.INFO" -> "INFO"

\* Exception classes a probe meets.  KeyboardInterrupt and SystemExit derive
\* from BaseException only; the others derive from Exception.  BrokenStrError
\* stands for an Exception subclass whose __str__ itself raises.
ExceptionClasses ==
    {"TimeoutExpired", "OSError", "PermissionError", "ValueError",
     "BrokenStrError", "KeyboardInterrupt", "SystemExit"}

\* isinstance(e, Exception); AttributeError is what None.get and a missing
\* .value raise
IsException(cls) == cls \notin {"KeyboardInterrupt", "SystemExit"}

\* the exceptions subprocess.run and open can raise in a probe
EnvExceptions == {"TimeoutExpired", "OSError", "PermissionError", "KeyboardInterrupt"}

\* str(e) returns (it raises for BrokenStrError)
StrReturns(cls) == cls # "BrokenStrError"

\* str(e)
str(cls) ==
    CASE cls = "TimeoutExpired" -> "Command timed out"
      [] cls = "OSError" -> "[Errno 2] No such file or directory"
      [] cls = "PermissionError" -> "[Errno 13] Permission denied"
      [] cls = "ValueError" -> "invalid literal for int() with base 10"
      [] cls = "KeyboardInterrupt" -> ""
      [] cls = "SystemExit" -> "1"
      [] cls = "AttributeError" -> "object has no attribute"

\* completions of a call
Returned(v) == [kind |-> "return", value |-> v]
ReturnedNone == [kind |-> "none"]
Raised(cls) == [kind |-> "raise", exc |-> cls]

----------------------------------------------------------------------------
(* Probe definitions: the static metadata each probe sets in __init__ *)

ConcreteProbes ==
    {"SoftwareUpdatesCheck", "FirewallCheck", "FileVaultCheck",
     "ScreenLockCheck", "SSHConfigCheck"}

\* CustomCheck stands for any other subclass of BaseCheck: its check() may do
\* anything a Python method can (return any dict, return None, raise).
Probes == ConcreteProbes \cup {"CustomCheck"}

BaseCheck_init ==
    [id |-> "", title |-> "", description |-> "", category |-> "",
     severity |-> "Severity.MEDIUM", compliance_frameworks |-> <<>>,
     remediation |-> ""]

SoftwareUpdatesCheck_init ==
    [id |-> "CIS-1.1",
     title |-> "Ensure All Apple-Provided Software Is Current",
     description |-> "Software updates often contain security patches for vulnerabilities",
     category |-> "System Updates",
     severity |-> "Severity.HIGH",
     compliance_frameworks |-> <<"CIS_macOS_14", "NIST_CSF_PR.IP-12", "ISO27001_A.12.6.1">>,
     remediation |-> "To install updates: ..."]

FirewallCheck_init ==
    [id |-> "CIS-2.1.1",
     title |-> "Ensure Firewall Is Enabled",
     description |-> "The macOS Application Firewall provides protection against network-based attacks",
     category |-> "Network Security",
     severity |-> "Severity.HIGH",
     compliance_frameworks |-> <<"CIS_macOS_14", "NIST_CSF_PR.AC-5", "ISO27001_A.13.1.1">>,
     remediation |-> "To enable the firewall: ..."]

FileVaultCheck_init ==
    [id |-> "CIS-2.6.1",
     title |-> "Ensure FileVault Is Enabled",
     description |-> "FileVault provides full disk encryption to protect data at rest",
     category |-> "Data Protection",
     severity |-> "Severity.CRITICAL",
     compliance_frameworks |-> <<"CIS_macOS_14", "NIST_CSF_PR.DS-1", "ISO27001_A.10.1.1", "PCI_DSS_3.4">>,
     remediation |-> "To enable FileVault: ..."]

ScreenLockCheck_init ==
    [id |-> "CIS-5.9",
     title |-> "Ensure Screen Lock Timeout is Set to 20 Minutes or Less",
     description |-> "Automatic screen lock prevents unauthorized access when user is away",
     category |-> "Access Control",
     severity |-> "Severity.MEDIUM",
     compliance_frameworks |-> <<"CIS_macOS_14", "NIST_CSF_PR.AC-7", "ISO27001_A.11.2.8">>,
     remediation |-> "To configure screen lock: ..."]

SSHConfigCheck_init ==
    [id |-> "CIS-4.2",
     title |-> "Ensure SSH Server Is Configured Securely",
     description |-> "SSH should be disabled if not needed, or configured securely if required",
     category |-> "Network Security",
     severity |-> "Severity.HIGH",
     compliance_frameworks |-> <<"CIS_macOS_14", "NIST_CSF_PR.AC-4", "ISO27001_A.13.1.1">>,
     remediation |-> "To secure or disable SSH: ..."]

\* a subclass that overrides every field of BaseCheck.__init__
CustomCheck_init ==
    [BaseCheck_init EXCEPT
        !.id = "CUSTOM-1", !.title = "Custom control",
        !.description = "A probe outside the repository",
        !.category = "Custom", !.severity = "Severity.LOW",
        !.compliance_frameworks = <<"CUSTOM_FW">>,
        !.remediation = "Custom default remediation"]

\* the probe instance of each class, as constructed
Self(p) ==
    CASE p = "SoftwareUpdatesCheck" -> SoftwareUpdatesCheck_init
      [] p = "FirewallCheck" -> FirewallCheck_init
      [] p = "FileVaultCheck" -> FileVaultCheck_init
      [] p = "ScreenLockCheck" -> ScreenLockCheck_init
      [] p = "SSHConfigCheck" -> SSHConfigCheck_init
      [] p = "CustomCheck" -> CustomCheck_init

----------------------------------------------------------------------------
(* BaseCheck.run *)

\* variant of run_except: the fault's description is not recorded
run_except_without_error(self, e, t) ==
    [id |-> self.id,
     title |-> self.title,
     description |-> self.description,
     category |-> self.category,
     severity |-> EnumValue(self.severity),
     status |-> EnumValue("CheckStatus.ERROR"),
     finding |-> "Check execution failed",
     evidence |-> Null,
     risk |-> "",
     remediation |-> "",
     timestamp |-> ToString(t),
     error |-> Null]

\* the dict of the except branch (it has no 'compliance_frameworks' key)
run_except(self, e, t) ==
    [id |-> self.id,
     title |-> self.title,
     description |-> self.description,
     category |-> self.category,
     severity |-> EnumValue(self.severity),
     status |-> EnumValue("CheckStatus.ERROR"),
     finding |-> "Check execution failed",
     evidence |-> Null,
     risk |-> "",
     remediation |-> "",
     timestamp |-> ToString(t),
     error |-> str(e)]

\* the dict of the try branch, as the base of the variants below
RunTryDict(self, result, t) ==
    [id |-> self.id,
     title |-> self.title,
     description |-> self.description,
     category |-> self.category,
     severity |-> EnumValue(self.severity),
     compliance_frameworks |-> self.compliance_frameworks,
     status |-> EnumValue(get(result, "status", "CheckStatus.ERROR")),
     finding |-> get(result, "finding", "No finding recorded"),
     evidence |-> get(result, "evidence", Null),
     risk |-> get(result, "risk", ""),
     remediation |-> get(result, "remediation", self.remediation),
     timestamp |-> ToString(t),
     error |-> Null]

\* variant of run_try: error is set to an empty description
run_try_with_error(self, result, t) ==
    [RunTryDict(self, result, t) EXCEPT !.error = ""]

\* variant of run_try: remediation falls back to '' and not to the probe's
run_try_empty_remediation(self, result, t) ==
    [RunTryDict(self, result, t) EXCEPT
        !.remediation = get(result, "remediation", "")]

\* variant of run_try: risk is read from the wrong key
run_try_risk_from_finding(self, result, t) ==
    [RunTryDict(self, result, t) EXCEPT !.risk = get(result, "finding", "")]

\* variant of run_try: the outcome's risk is not copied
run_try_without_risk(self, result, t) ==
    [RunTryDict(self, result, t) EXCEPT !.risk = ""]

\* variant of run_try: an 'id' in the outcome replaces the probe's
run_try_outcome_overrides_id(self, result, t) ==
    [RunTryDict(self, result, t) EXCEPT !.id = get(result, "id", self.id)]

\* the dict of the try branch, for a dict `result` whose status has a .value
run_try(self, result, t) ==
    [id |-> self.id,
     title |-> self.title,
     description |-> self.description,
     category |-> self.category,
     severity |-> EnumValue(self.severity),
     compliance_frameworks |-> self.compliance_frameworks,
     status |-> EnumValue(get(result, "status", "CheckStatus.ERROR")),
     finding |-> get(result, "finding", "No finding recorded"),
     evidence |-> get(result, "evidence", Null),
     risk |-> get(result, "risk", ""),
     remediation |-> get(result, "remediation", self.remediation),
     timestamp |-> ToString(t),
     error |-> Null]

\* the exception raised inside the try block, or Null if it completes:
\* check() raised; None has no .get; the status has no .value
run_try_raises(c) ==
    IF c.kind = "raise" THEN c.exc
    ELSE IF c.kind = "none" THEN "AttributeError"
    ELSE IF get(c.value, "status", "CheckStatus.ERROR") \notin EnumMembers
         THEN "AttributeError"
    ELSE Null

\* variant of run_catches: `except subprocess.TimeoutExpired`
run_catches_timeout_only(e) == e = "TimeoutExpired"

\* `except Exception as e` catches e
run_catches(e) == IsException(e)

\* run(), given how check() completed (c) and the clock (t): the completion
\* of run() itself
run(self, c, t) ==
    LET e == run_try_raises(c) IN
    IF e = Null THEN Returned(run_try(self, c.value, t))
    ELSE IF ~run_catches(e) THEN Raised(e)
    ELSE IF ~StrReturns(e) THEN Raised(e)
    ELSE Returned(run_except(self, e, t))

----------------------------------------------------------------------------
(* The five probes.  Each check() is a function of what its external       *)
(* commands and files do: `env`.  A command completes as Raised(cls) or as *)
(* Returned([returncode, stdout]).                                         *)

\* subprocess.run raises: the timeout, a missing or unexecutable command, an
\* interrupt
CmdRaises == {Raised(e) : e \in EnvExceptions}

Cmd(rc, out) == Returned([returncode |-> rc, stdout |-> out])

(* SoftwareUpdatesCheck *)

\* lines of `softwareupdate -l` output
UpdateLines ==
    {"Software Update Tool", "No new software available.",
     "* Label: Security Update 2024-001", "* Safari17.0", "*"}

\* line.startswith('*') or line.startswith('Label:'), after strip()
IsUpdateEntry(line) ==
    line \in {"* Label: Security Update 2024-001", "* Safari17.0", "*"}

\* line.split(':', 1)[1].strip() if ':' in line else line.lstrip('* ').strip()
UpdateName(line) ==
    CASE line = "* Label: Security Update 2024-001" -> "Security Update 2024-001"
      [] line = "* Safari17.0" -> "Safari17.0"
      [] line = "*" -> ""

RECURSIVE _parse_updates(_)
_parse_updates(lines) ==
    IF lines = <<>> THEN <<>>
    ELSE LET line == Head(lines)
             rest == _parse_updates(Tail(lines))
         IN IF IsUpdateEntry(line) /\ UpdateName(line) # ""
            THEN <<UpdateName(line)>> \o rest
            ELSE rest

\* "no new software available" in output or "no updates available" in output
ReportsUpToDate(lines) ==
    \E i \in 1..Len(lines) : lines[i] = "No new software available."

\* 'security' in u.lower()
MentionsSecurity(u) == u = "Security Update 2024-001"

SoftwareUpdatesEnvs ==
    [cmd : CmdRaises \cup
           {Cmd(0, out) : out \in UNION {[1..n -> UpdateLines] : n \in 0..MaxLines}}]

SoftwareUpdatesCheck_check(env) ==
    IF env.cmd.kind = "raise" THEN
        IF env.cmd.exc = "TimeoutExpired" THEN
            Returned([status |-> "CheckStatus.ERROR",
                      finding |-> "Software update check timed out",
                      evidence |-> "{'error': 'Command timeout after 30 seconds'}",
                      risk |-> "Unable to verify update status"])
        ELSE IF IsException(env.cmd.exc) THEN
            Returned([status |-> "CheckStatus.ERROR",
                      finding |-> "Could not check software updates",
                      evidence |-> "{'error': str(e)}",
                      risk |-> "Unable to verify update status"])
        ELSE env.cmd
    ELSE
        LET out == env.cmd.value.stdout
            updates == _parse_updates(out)
            has_security_updates == \E i \in 1..Len(updates) : MentionsSecurity(updates[i])
        IN  IF ReportsUpToDate(out) THEN
                Returned([status |-> "CheckStatus.PASS",
                          finding |-> "System is up to date - no pending updates",
                          evidence |-> "{'updates_available': 0, 'output': ...}",
                          risk |-> "None"])
            ELSE
                Returned([status |-> "CheckStatus.FAIL",
                          finding |-> IF has_security_updates
                                      THEN "CRITICAL - Security updates available"
                                      ELSE ToString(Len(updates)) \o " update(s) available",
                          evidence |-> "{'updates_available': n, 'updates': ..., 'has_security_updates': ...}",
                          risk |-> "Outdated software may contain known vulnerabilities that can be exploited by attackers"])

(* FirewallCheck *)

FirewallStates == {"Firewall is enabled. (State = 1)", "Firewall is disabled. (State = 0)", ""}
StealthStates == {"Stealth mode enabled", "Stealth mode disabled"}

\* 'enabled' in output
SaysEnabled(out) == out \in {"Firewall is enabled. (State = 1)", "Stealth mode enabled"}

FirewallEnvs ==
    [cmd : CmdRaises \cup {Cmd(0, out) : out \in FirewallStates},
     stealth : CmdRaises \cup {Cmd(0, out) : out \in StealthStates}]

FirewallCheck_error ==
    Returned([status |-> "CheckStatus.ERROR",
              finding |-> "Could not check firewall status",
              evidence |-> "{'error': str(e)}",
              risk |-> "Unable to verify firewall configuration"])

\* variant of FirewallCheck_check: a fault of the stealth-mode command is
\* swallowed and the stealth mode is taken as off
FirewallCheck_check_ignores_stealth_fault(env) ==
    IF env.cmd.kind = "raise" THEN
        IF IsException(env.cmd.exc) THEN FirewallCheck_error ELSE env.cmd
    ELSE IF SaysEnabled(env.cmd.value.stdout) THEN
        IF env.stealth.kind = "raise" /\ ~IsException(env.stealth.exc) THEN
            env.stealth
        ELSE
            Returned([status |-> "CheckStatus.PASS",
                      finding |-> "Firewall is enabled",
                      evidence |-> "{'firewall_enabled': True, 'stealth_mode': False, 'output': ...}",
                      risk |-> "None"])
    ELSE
        Returned([status |-> "CheckStatus.FAIL",
                  finding |-> "Firewall is DISABLED",
                  evidence |-> "{'firewall_enabled': False, 'output': ...}",
                  risk |-> "System is vulnerable to network-based attacks. Unauthorized network connections can be established."])

FirewallCheck_check(env) ==
    IF env.cmd.kind = "raise" THEN
        IF IsException(env.cmd.exc) THEN FirewallCheck_error ELSE env.cmd
    ELSE IF SaysEnabled(env.cmd.value.stdout) THEN
        IF env.stealth.kind = "raise" THEN
            IF IsException(env.stealth.exc) THEN FirewallCheck_error ELSE env.stealth
        ELSE
            Returned([status |-> "CheckStatus.PASS",
                      finding |-> "Firewall is enabled",
                      evidence |-> IF SaysEnabled(env.stealth.value.stdout)
                                   THEN "{'firewall_enabled': True, 'stealth_mode': True, 'output': ...}"
                                   ELSE "{'firewall_enabled': True, 'stealth_mode': False, 'output': ...}",
                      risk |-> "None"])
    ELSE
        Returned([status |-> "CheckStatus.FAIL",
                  finding |-> "Firewall is DISABLED",
                  evidence |-> "{'firewall_enabled': False, 'output': ...}",
                  risk |-> "System is vulnerable to network-based attacks. Unauthorized network connections can be established."])

(* FileVaultCheck *)

FileVaultStates ==
    {"FileVault is On.", "FileVault is Off.",
     "Encryption in progress: Percent completed = 50", ""}

FileVaultEnvs == [cmd : CmdRaises \cup {Cmd(0, out) : out \in FileVaultStates}]

FileVaultCheck_check(env) ==
    IF env.cmd.kind = "raise" THEN
        IF IsException(env.cmd.exc) THEN
            Returned([status |-> "CheckStatus.ERROR",
                      finding |-> "Could not check FileVault status",
                      evidence |-> "{'error': str(e)}",
                      risk |-> "Unable to verify disk encryption"])
        ELSE env.cmd
    ELSE
        LET output == env.cmd.value.stdout IN
        IF output = "FileVault is On." THEN
            Returned([status |-> "CheckStatus.PASS",
                      finding |-> "FileVault disk encryption is enabled",
                      evidence |-> "{'filevault_enabled': True, 'status': output}",
                      risk |-> "None"])
        ELSE IF output = "FileVault is Off." THEN
            Returned([status |-> "CheckStatus.FAIL",
                      finding |-> "FileVault disk encryption is DISABLED",
                      evidence |-> "{'filevault_enabled': False, 'status': output}",
                      risk |-> "CRITICAL - Data at rest is not encrypted. If device is lost or stolen, all data is accessible."])
        ELSE IF output = "Encryption in progress: Percent completed = 50" THEN
            Returned([status |-> "CheckStatus.WARNING",
                      finding |-> "FileVault encryption is in progress",
                      evidence |-> "{'filevault_enabled': True, 'encryption_in_progress': True, 'status': output}",
                      risk |-> "Low - Encryption is being applied but not yet complete"])
        ELSE
            Returned([status |-> "CheckStatus.WARNING",
                      finding |-> "FileVault status unclear",
                      evidence |-> "{'status': output}",
                      risk |-> "Unable to determine encryption status"])

(* ScreenLockCheck *)

\* CIS recommends 20 minutes or less (1200 seconds)
RecommendedMaxSeconds == 1200

IdleTimeOutputs == {"600", "90", "1200", "1201", "0", "-1", "abc", ""}

\* int(s) raises ValueError
IntRaises(s) == s \in {"abc", ""}

\* int(result.stdout.strip())
int(s) ==
    CASE s = "600" -> 600
      [] s = "90" -> 90
      [] s = "1200" -> 1200
      [] s = "1201" -> 1201
      [] s = "0" -> 0
      [] s = "-1" -> -1

\* f'{idle_seconds / 60:.0f}' for idle_seconds >= 0: to the nearest minute,
\* a half to the even one
Minutes(secs) ==
    LET q == secs \div 60
        r == secs % 60
    IN  ToString(IF r * 2 < 60 THEN q
                 ELSE IF r * 2 > 60 THEN q + 1
                 ELSE IF q % 2 = 0 THEN q ELSE q + 1)

ScreenLockEnvs ==
    [cmd : CmdRaises \cup {Cmd(0, out) : out \in IdleTimeOutputs}
                     \cup {Cmd(1, "")}]

ScreenLockCheck_check(env) ==
    IF env.cmd.kind = "raise" THEN
        IF IsException(env.cmd.exc) THEN
            Returned([status |-> "CheckStatus.ERROR",
                      finding |-> "Could not check screen lock timeout",
                      evidence |-> "{'error': str(e)}",
                      risk |-> "Unable to verify screen lock configuration"])
        ELSE env.cmd
    ELSE IF env.cmd.value.returncode = 0 THEN
        IF IntRaises(env.cmd.value.stdout) THEN
            Returned([status |-> "CheckStatus.ERROR",
                      finding |-> "Could not parse screen lock timeout value",
                      evidence |-> "{'error': 'Invalid timeout value'}",
                      risk |-> "Unable to verify screen lock configuration"])
        ELSE
            LET idle_seconds == int(env.cmd.value.stdout) IN
            IF idle_seconds > 0 /\ idle_seconds <= RecommendedMaxSeconds THEN
                Returned([status |-> "CheckStatus.PASS",
                          finding |-> "Screen lock timeout is set to " \o Minutes(idle_seconds)
                                      \o " minutes (within recommended 20 minutes)",
                          evidence |-> "{'timeout_seconds': ..., 'timeout_minutes': ..., 'recommended_max': 20}",
                          risk |-> "None"])
            ELSE IF idle_seconds > RecommendedMaxSeconds THEN
                Returned([status |-> "CheckStatus.FAIL",
                          finding |-> "Screen lock timeout is " \o Minutes(idle_seconds)
                                      \o " minutes (exceeds recommended 20 minutes)",
                          evidence |-> "{'timeout_seconds': ..., 'timeout_minutes': ..., 'recommended_max': 20}",
                          risk |-> "Extended timeout increases risk of unauthorized access if user leaves workstation unattended"])
            ELSE
                Returned([status |-> "CheckStatus.FAIL",
                          finding |-> "Screen lock timeout is not configured (set to 0 or never)",
                          evidence |-> "{'timeout_seconds': ..., 'configured': False}",
                          risk |-> "HIGH - Screen will never lock automatically, allowing unauthorized access"])
    ELSE
        Returned([status |-> "CheckStatus.WARNING",
                  finding |-> "Screen lock timeout setting not found (may be using system default)",
                  evidence |-> "{'configured': False, 'error': stderr}",
                  risk |-> "Unclear - unable to verify timeout configuration"])

(* SSHConfigCheck *)

RemoteLoginStates == {"Remote Login: On", "Remote Login: Off", ""}

\* 'On' in result.stdout
SaysOn(out) == out = "Remote Login: On"

\* the insecure directives sshd_config can hold, in the order check() looks
\* for them; a file is the set of those found in it
InsecureDirectives ==
    <<"PermitRootLogin yes", "PasswordAuthentication yes", "PermitEmptyPasswords yes">>

\* open() and read() of /etc/ssh/sshd_config
ConfigReads ==
    {Raised(e) : e \in {"PermissionError", "OSError", "KeyboardInterrupt"}}
    \cup {Returned(c) : c \in SUBSET {InsecureDirectives[i] : i \in 1..3}}

SSHConfigEnvs ==
    [cmd : CmdRaises \cup {Cmd(0, out) : out \in RemoteLoginStates},
     exists : BOOLEAN,
     read : ConfigReads]

\* the handlers of check(): PermissionError, then Exception
SSHConfigCheck_except(raised) ==
    IF raised.exc = "PermissionError" THEN
        Returned([status |-> "CheckStatus.WARNING",
                  finding |-> "Insufficient permissions to check SSH configuration (needs sudo)",
                  evidence |-> "{'error': 'Permission denied'}",
                  risk |-> "Unable to verify SSH security configuration"])
    ELSE IF IsException(raised.exc) THEN
        Returned([status |-> "CheckStatus.ERROR",
                  finding |-> "Could not check SSH configuration",
                  evidence |-> "{'error': str(e)}",
                  risk |-> "Unable to verify SSH security"])
    ELSE raised

\* len(issues)
CountIssues(content) == Cardinality({i \in 1..3 : InsecureDirectives[i] \in content})

SSHConfigCheck_check(env) ==
    IF env.cmd.kind = "raise" THEN SSHConfigCheck_except(env.cmd)
    ELSE IF ~SaysOn(env.cmd.value.stdout) THEN
        Returned([status |-> "CheckStatus.PASS",
                  finding |-> "SSH Remote Login is disabled (recommended if not needed)",
                  evidence |-> "{'ssh_enabled': False, 'status': ...}",
                  risk |-> "None"])
    ELSE IF env.exists THEN
        IF env.read.kind = "raise" THEN SSHConfigCheck_except(env.read)
        ELSE IF CountIssues(env.read.value) > 0 THEN
            Returned([status |-> "CheckStatus.FAIL",
                      finding |-> "SSH is enabled with " \o ToString(CountIssues(env.read.value))
                                  \o " security issue(s)",
                      evidence |-> "{'ssh_enabled': True, 'issues': issues, 'config_checked': True}",
                      risk |-> "SSH configuration allows insecure practices that could lead to unauthorized access"])
        ELSE
            Returned([status |-> "CheckStatus.PASS",
                      finding |-> "SSH is enabled with secure configuration",
                      evidence |-> "{'ssh_enabled': True, 'issues': [], 'config_checked': True}",
                      risk |-> "Low - SSH is configured with security best practices"])
    ELSE
        Returned([status |-> "CheckStatus.WARNING",
                  finding |-> "SSH is enabled but configuration file not found",
                  evidence |-> "{'ssh_enabled': True, 'config_path': ..., 'config_found': False}",
                  risk |-> "Unable to verify SSH security configuration"])

(* CustomCheck: check() is abstract in BaseCheck, so a subclass may complete *)
(* in any way.  The environment of a custom probe is that completion.        *)

\* {} or {key: v} for a v of V
Optional(key, V) == {EmptyDict} \cup {key :> v : v \in V}

\* what a check() may put under 'status': a CheckStatus, a member of another
\* Enum, None, or a plain str
StatusInputs == CheckStatusMembers \cup {"Severity.HIGH", Null, "PASS"}

CustomOutcomes ==
    {i @@ s @@ f @@ e @@ r @@ m :
        i \in Optional("id", {"OUTCOME-1"}),
        s \in Optional("status", StatusInputs),
        f \in Optional("finding", {"Custom finding", Null}),
        e \in Optional("evidence", {"{'custom': 1}"}),
        r \in Optional("risk", {"Custom risk", ""}),
        m \in Optional("remediation", {"Custom remediation", Null})}

CustomEnvs ==
    {Returned(o) : o \in CustomOutcomes}
    \cup {ReturnedNone}
    \cup {Raised(e) : e \in ExceptionClasses}

CustomCheck_check(env) == env

----------------------------------------------------------------------------
(* Dispatch on the probe's class *)

Envs(p) ==
    CASE p = "SoftwareUpdatesCheck" -> SoftwareUpdatesEnvs
      [] p = "FirewallCheck" -> FirewallEnvs
      [] p = "FileVaultCheck" -> FileVaultEnvs
      [] p = "ScreenLockCheck" -> ScreenLockEnvs
      [] p = "SSHConfigCheck" -> SSHConfigEnvs
      [] p = "CustomCheck" -> CustomEnvs

\* self.check() of probe p in environment env
check(p, env) ==
    CASE p = "SoftwareUpdatesCheck" -> SoftwareUpdatesCheck_check(env)
      [] p = "FirewallCheck" -> FirewallCheck_check(env)
      [] p = "FileVaultCheck" -> FileVaultCheck_check(env)
      [] p = "ScreenLockCheck" -> ScreenLockCheck_check(env)
      [] p = "SSHConfigCheck" -> SSHConfigCheck_check(env)
      [] p = "CustomCheck" -> CustomCheck_check(env)

----------------------------------------------------------------------------
(* The aggregator: dashboard.calculate_stats *)

\* sum(1 for r in results if r['status'] == status)
RECURSIVE CountStatus(_, _)
CountStatus(rs, status) ==
    IF rs = <<>> THEN 0
    ELSE (IF Head(rs).status = status THEN 1 ELSE 0) + CountStatus(Tail(rs), status)

\* variant of RoundedScore: the score is cut to one decimal, not rounded
RoundedScore_truncated(passed, total) == (passed * 1000) \div total

\* round(passed / total * 100, 1) for total > 0, in tenths of a percent:
\* to the nearest tenth, an exact half to the even tenth
RoundedScore(passed, total) ==
    LET q == (passed * 1000) \div total
        r == (passed * 1000) % total
    IN  IF 2 * r < total THEN q
        ELSE IF 2 * r > total THEN q + 1
        ELSE IF q % 2 = 0 THEN q ELSE q + 1

\* variant of calculate_stats: every result that is not PASS counts as failed
calculate_stats_failed_is_not_passed(rs) ==
    LET total == Len(rs)
        passed == CountStatus(rs, "PASS")
    IN  [total |-> total,
         passed |-> passed,
         failed |-> total - passed,
         warnings |-> CountStatus(rs, "WARNING"),
         compliance_score |-> IF total > 0 THEN RoundedScore(passed, total) ELSE 0]

\* variant of calculate_stats: NOT_APPLICABLE results are left out of the
\* score's denominator
calculate_stats_excludes_not_applicable(rs) ==
    LET total == Len(rs)
        passed == CountStatus(rs, "PASS")
        failed == CountStatus(rs, "FAIL")
        warnings == CountStatus(rs, "WARNING")
        scored == total - CountStatus(rs, "NOT_APPLICABLE")
    IN  [total |-> total,
         passed |-> passed,
         failed |-> failed,
         warnings |-> warnings,
         compliance_score |-> IF scored > 0 THEN RoundedScore(passed, scored) ELSE 0]

\* compliance_score is held in tenths of a percent (333 is 33.3)
calculate_stats(rs) ==
    LET total == Len(rs)
        passed == CountStatus(rs, "PASS")
        failed == CountStatus(rs, "FAIL")
        warnings == CountStatus(rs, "WARNING")
    IN  [total |-> total,
         passed |-> passed,
         failed |-> failed,
         warnings |-> warnings,
         compliance_score |-> IF total > 0 THEN RoundedScore(passed, total) ELSE 0]

----------------------------------------------------------------------------
(* The CLI summary: test_all_checks.main, lines 64-100 *)

\* a number of tenths as printed with one decimal: 333 is "33.3"
Decimal1(tenths) == ToString(tenths \div 10) \o "." \o ToString(tenths % 10)

\* f"{(pass_count / total) * 100:.1f}": the decimal with one digit nearest
\* to the value, an exact half going to the even digit
format_1f(pass_count, total) ==
    LET twice == 2 * pass_count * 1000 + total
        up == twice \div (2 * total)
        half == twice % (2 * total) = 0
    IN  Decimal1(IF half /\ up % 2 = 1 THEN up - 1 ELSE up)

\* for result in results: if status == 'PASS': pass_count += 1
\* elif status == 'FAIL': fail_count += 1
\* elif status == 'WARNING': warning_count += 1
RECURSIVE summary_loop(_, _)
summary_loop(rs, counts) ==
    IF Len(rs) = 0 THEN counts
    ELSE LET status == Head(rs).status IN
         summary_loop(Tail(rs),
            IF status = "PASS" THEN [counts EXCEPT !.pass_count = @ + 1]
            ELSE IF status = "FAIL" THEN [counts EXCEPT !.fail_count = @ + 1]
            ELSE IF status = "WARNING" THEN [counts EXCEPT !.warning_count = @ + 1]
            ELSE counts)

\* variant of main_summary: a status that is not PASS, FAIL or WARNING is
\* left out of the total
main_summary_total_of_verdicts(rs) ==
    LET counts == summary_loop(rs, [pass_count |-> 0, fail_count |-> 0,
                                    warning_count |-> 0])
        total == counts.pass_count + counts.fail_count + counts.warning_count
    IN  [total |-> total,
         passed |-> counts.pass_count,
         failed |-> counts.fail_count,
         warnings |-> counts.warning_count,
         compliance_score |-> IF total > 0 THEN format_1f(counts.pass_count, total)
                              ELSE Decimal1(0)]

\* what main prints under 'Results:' and 'Compliance Score:'
main_summary(rs) ==
    LET counts == summary_loop(rs, [pass_count |-> 0, fail_count |-> 0,
                                    warning_count |-> 0])
        total == Len(rs)
    IN  [total |-> total,
         passed |-> counts.pass_count,
         failed |-> counts.fail_count,
         warnings |-> counts.warning_count,
         compliance_score |-> IF total > 0 THEN format_1f(counts.pass_count, total)
                              ELSE Decimal1(0)]

----------------------------------------------------------------------------

(* The category grouping of the results view: dashboard.main, lines 218-224. *)
(* A Python dict keeps its keys in insertion order: the grouping is written *)
(* as the sequence of its <<key, list>> items in that order.                *)

\* the keys of an ordered dict, in insertion order
Keys(d) == [i \in 1..Len(d) |-> d[i][1]]

\* variant of categories_append: categories[cat].insert(0, result)
categories_append_inserts_first(d, cat, result) ==
    IF \E i \in 1..Len(d) : d[i][1] = cat
    THEN [i \in 1..Len(d) |->
            IF d[i][1] = cat THEN <<cat, <<result>> \o d[i][2]>> ELSE d[i]]
    ELSE Append(d, <<cat, <<result>>>>)

\* if cat not in categories: categories[cat] = []
\* categories[cat].append(result)
categories_append(d, cat, result) ==
    IF \E i \in 1..Len(d) : d[i][1] = cat
    THEN [i \in 1..Len(d) |->
            IF d[i][1] = cat THEN <<cat, Append(d[i][2], result)>> ELSE d[i]]
    ELSE Append(d, <<cat, <<result>>>>)

\* for result in results: cat = result['category']; ...
RECURSIVE group_loop(_, _)
group_loop(rs, d) ==
    IF Len(rs) = 0 THEN d
    ELSE group_loop(Tail(rs), categories_append(d, Head(rs).category, Head(rs)))

\* categories = {}; for result in results: ...
group_by_category(rs) == group_loop(rs, <<>>)

----------------------------------------------------------------------------

(* State *)

NoCall == [kind |-> "nocall"]

\* no probe has been constructed by a single-probe caller
NoInstance == [kind |-> "noinstance"]

NoStats ==
    [total |-> 0, passed |-> 0, failed |-> 0, warnings |-> 0, compliance_score |-> 0]

\* the CLI has printed no summary
NoSummary == [kind |-> "nosummary"]

\* no single-probe caller has run
NoSingleRun == probe = Null /\ lastRun = NoCall /\ runs = 0

\* no scan has started
NoScan ==
    /\ checks = <<>>
    /\ idx = 0
    /\ invoked = <<>>
    /\ running = {}

\* the aggregator has not been called
NoAggregation == stats = NoStats

----------------------------------------------------------------------------
(* One probe run by a caller: run_check.run_single_check and the __main__  *)
(* blocks of the probe modules construct a probe and call run().           *)

InitRun ==
    /\ scans = 0
    /\ session = <<>>
    /\ heap = <<>>
    /\ calls = 0
    /\ progress = <<>>
    /\ probe \in Probes
    /\ instance = Self(probe)
    /\ lastEnv = NoCall
    /\ timedOut = {}
    /\ categories = <<>>
    /\ lastCheck = NoCall
    /\ lastRun = NoCall
    /\ runs = 0
    /\ now = 0
    /\ results = <<>>
    /\ pc = "constructed"
    /\ NoScan
    /\ NoAggregation
    /\ summary = NoSummary

\* check = check_class(); result = check.run()
RunSingleCheck ==
    /\ pc = "constructed"
    /\ runs < MaxRuns
    /\ \E env \in Envs(probe) :
          LET c == check(probe, env)
              r == run(instance, c, now)
          IN  /\ lastEnv' = env
              /\ lastCheck' = c
              /\ lastRun' = r
              /\ pc' = IF r.kind = "raise" THEN "aborted" ELSE "constructed"
    /\ runs' = runs + 1
    /\ now' = now + 1
    /\ UNCHANGED <<probe, checks, idx, results, invoked, running, stats,
                   categories, timedOut, instance, progress, calls, heap,
                   session, scans, summary>>

NextRun == RunSingleCheck

SpecRun == InitRun /\ [][NextRun]_vars

----------------------------------------------------------------------------
(* The scan: dashboard.run_all_checks and the loop of test_all_checks.main *)

\* checks = [SoftwareUpdatesCheck(), FirewallCheck(), FileVaultCheck(),
\*           ScreenLockCheck(), SSHConfigCheck()]
DashboardChecks ==
    <<"SoftwareUpdatesCheck", "FirewallCheck", "FileVaultCheck",
      "ScreenLockCheck", "SSHConfigCheck">>

\* the probe lists scanned: the repository's own, and every short list of
\* probes of any class
ProbeLists ==
    {DashboardChecks} \cup UNION {[1..n -> Probes] : n \in 0..MaxProbes}

\* In a scan a custom probe's check() is taken through every path of run()
\* and every status, with the other keys of its outcome left out: the loop
\* reads no field of a result.
ScanEnvs(p) ==
    IF p = "CustomCheck"
    THEN {Returned(o) : o \in Optional("status", StatusInputs)}
         \cup {ReturnedNone}
         \cup {Raised(e) : e \in ExceptionClasses}
    ELSE Envs(p)

\* subprocess.run(..., timeout=n) raised TimeoutExpired in a command that
\* check() of probe p reached in environment env
TimedOut(p, env) ==
    LET timeout(c) == c.kind = "raise" /\ c.exc = "TimeoutExpired" IN
    CASE p = "FirewallCheck" ->
            \/ timeout(env.cmd)
            \/ /\ env.cmd.kind = "return"
               /\ SaysEnabled(env.cmd.value.stdout)
               /\ timeout(env.stealth)
      [] p = "CustomCheck" -> timeout(env)
      [] OTHER -> timeout(env.cmd)

(* The progress widgets of run_all_checks.  `progress` lists what they were *)
(* told; the field `at` of an entry is the iteration of the loop that told  *)
(* it (0 outside the loop) and is not part of what the widget receives.     *)

RECURSIVE gcd(_, _)
gcd(a, b) == IF b = 0 THEN a ELSE gcd(b, a % b)

\* the number n / d, in lowest terms
Fraction(n, d) == <<n \div gcd(n, d), d \div gcd(n, d)>>

\* status_text.text(f"Running: {check.title}...")
StatusText(at, title) ==
    [at |-> at, widget |-> "status_text", text |-> "Running: " \o title \o "..."]

\* st.progress(0) and progress_bar.progress(value)
ProgressBar(at, value) == [at |-> at, widget |-> "progress_bar", value |-> value]

\* status_text.empty() and progress_bar.empty()
Emptied(widget) == [at |-> 0, widget |-> widget, empty |-> TRUE]

InitScan ==
    /\ checks \in ProbeLists
    /\ pc = "start"
    /\ idx = 0
    /\ results = <<>>
    /\ invoked = <<>>
    /\ running = {}
    /\ now = 0
    /\ lastCheck = NoCall
    /\ NoSingleRun
    /\ NoAggregation
    /\ categories = <<>>
    /\ lastEnv = NoCall
    /\ timedOut = {}
    /\ instance = NoInstance
    /\ progress = <<>>
    /\ calls = 0
    /\ heap = <<>>
    /\ session = <<>>
    /\ scans = 0
    /\ summary = NoSummary

\* results = []
StartScan ==
    /\ pc = "start"
    /\ results' = <<>>
    /\ progress' = Append(progress, ProgressBar(0, Fraction(0, 1)))
    /\ idx' = 0
    /\ pc' = "loop"
    /\ UNCHANGED <<probe, lastCheck, lastRun, runs, now, checks, invoked,
                   running, stats, categories, lastEnv, timedOut, instance,
                   calls, heap, session, scans, summary>>

\* variant of BeginRun: the status text is not updated before check.run()
BeginRun_without_status_text ==
    /\ pc = "loop"
    /\ idx < Len(checks)
    /\ \E env \in ScanEnvs(checks[idx + 1]) :
          /\ lastCheck' = check(checks[idx + 1], env)
          /\ timedOut' = IF TimedOut(checks[idx + 1], env)
                          THEN timedOut \cup {idx + 1} ELSE timedOut
    /\ progress' = progress
    /\ invoked' = Append(invoked, idx + 1)
    /\ running' = running \cup {idx + 1}
    /\ pc' = "in_run"
    /\ UNCHANGED <<probe, lastRun, runs, now, checks, idx, results, stats,
                   categories, lastEnv, instance, calls, heap, session, scans,
                   summary>>

\* for idx, check in enumerate(checks): check.run() is entered and calls
\* self.check()
BeginRun ==
    /\ pc = "loop"
    /\ idx < Len(checks)
    /\ \E env \in ScanEnvs(checks[idx + 1]) :
          /\ lastCheck' = check(checks[idx + 1], env)
          /\ timedOut' = IF TimedOut(checks[idx + 1], env)
                          THEN timedOut \cup {idx + 1} ELSE timedOut
    /\ progress' = Append(progress, StatusText(idx + 1, Self(checks[idx + 1]).title))
    /\ invoked' = Append(invoked, idx + 1)
    /\ running' = running \cup {idx + 1}
    /\ pc' = "in_run"
    /\ UNCHANGED <<probe, lastRun, runs, now, checks, idx, results, stats,
                   categories, lastEnv, instance, calls, heap, session, scans,
                   summary>>

\* variant of EndRun: results.insert(0, result)
EndRun_inserts_first ==
    /\ pc = "in_run"
    /\ LET r == run(Self(checks[idx + 1]), lastCheck, now) IN
          IF r.kind = "return"
          THEN /\ results' = <<r.value>> \o results
               /\ progress' = Append(progress,
                                ProgressBar(idx + 1, Fraction(idx + 1, Len(checks))))
               /\ idx' = idx + 1
               /\ pc' = "loop"
               /\ lastRun' = lastRun
          ELSE /\ pc' = "aborted"
               /\ lastRun' = r
               /\ UNCHANGED <<results, idx, progress>>
    /\ running' = running \ {idx + 1}
    /\ lastCheck' = NoCall
    /\ now' = now + 1
    /\ UNCHANGED <<probe, runs, checks, invoked, stats, categories, lastEnv,
                   timedOut, instance, calls, heap, session, scans, summary>>

\* variant of EndRun: the loop returns at the first result that carries an
\* error
EndRun_returns_on_error ==
    /\ pc = "in_run"
    /\ LET r == run(Self(checks[idx + 1]), lastCheck, now) IN
          IF r.kind = "return"
          THEN /\ results' = Append(results, r.value)
               /\ progress' = Append(progress,
                                ProgressBar(idx + 1, Fraction(idx + 1, Len(checks))))
               /\ idx' = idx + 1
               /\ pc' = IF r.value.error # Null THEN "done" ELSE "loop"
               /\ lastRun' = lastRun
          ELSE /\ pc' = "aborted"
               /\ lastRun' = r
               /\ UNCHANGED <<results, idx, progress>>
    /\ running' = running \ {idx + 1}
    /\ lastCheck' = NoCall
    /\ now' = now + 1
    /\ UNCHANGED <<probe, runs, checks, invoked, stats, categories, lastEnv,
                   timedOut, instance, calls, heap, session, scans, summary>>

\* check.run() completes: results.append(result), or the exception run()
\* did not catch leaves the loop and the function
EndRun ==
    /\ pc = "in_run"
    /\ LET r == run(Self(checks[idx + 1]), lastCheck, now) IN
          IF r.kind = "return"
          THEN /\ results' = Append(results, r.value)
               /\ progress' = Append(progress,
                                ProgressBar(idx + 1, Fraction(idx + 1, Len(checks))))
               /\ idx' = idx + 1
               /\ pc' = "loop"
               /\ lastRun' = lastRun
          ELSE /\ pc' = "aborted"
               /\ lastRun' = r
               /\ UNCHANGED <<results, idx, progress>>
    /\ running' = running \ {idx + 1}
    /\ lastCheck' = NoCall
    /\ now' = now + 1
    /\ UNCHANGED <<probe, runs, checks, invoked, stats, categories, lastEnv,
                   timedOut, instance, calls, heap, session, scans, summary>>

\* return results
ReturnResults ==
    /\ pc = "loop"
    /\ idx = Len(checks)
    /\ progress' = progress \o <<Emptied("status_text"), Emptied("progress_bar")>>
    /\ pc' = "done"
    /\ UNCHANGED <<probe, lastCheck, lastRun, runs, now, checks, idx, results,
                   invoked, running, stats, categories, lastEnv, timedOut,
                   instance, calls, heap, session, scans, summary>>

NextScan == StartScan \/ BeginRun \/ EndRun \/ ReturnResults

Spec == InitScan /\ [][NextScan]_vars

\* The loop is one thread and every external command carries a timeout, so
\* a step that can be taken is taken.
FairSpec == Spec /\ WF_vars(NextScan)

----------------------------------------------------------------------------
(* The aggregator applied to a result list *)

\* results of every status the wrapper can produce
ResultPool ==
    {run(CustomCheck_init, Returned("status" :> s), 0).value :
        s \in CheckStatusMembers \cup {"Severity.HIGH"}}

InitStats ==
    /\ results \in UNION {[1..n -> ResultPool] : n \in 0..MaxResults}
    /\ pc = "results"
    /\ stats = NoStats
    /\ now = 0
    /\ lastCheck = NoCall
    /\ NoSingleRun
    /\ NoScan
    /\ categories = <<>>
    /\ lastEnv = NoCall
    /\ timedOut = {}
    /\ instance = NoInstance
    /\ progress = <<>>
    /\ calls = 0
    /\ heap = <<>>
    /\ session = <<>>
    /\ scans = 0
    /\ summary = NoSummary

\* variant of CalculateStats: the call takes the last result off the list
CalculateStats_pops_result ==
    /\ pc = "results"
    /\ stats' = calculate_stats(results)
    /\ results' = IF Len(results) = 0 THEN results
                  ELSE SubSeq(results, 1, Len(results) - 1)
    /\ calls' = calls + 1
    /\ pc' = "stats"
    /\ UNCHANGED <<probe, lastCheck, lastRun, runs, now, checks, idx, invoked,
                   running, categories, lastEnv, timedOut, instance, progress,
                   heap, session, scans, summary>>

\* stats = calculate_stats(results)
CalculateStats ==
    /\ pc = "results"
    /\ stats' = calculate_stats(results)
    /\ calls' = calls + 1
    /\ pc' = "stats"
    /\ UNCHANGED <<probe, lastCheck, lastRun, runs, now, checks, idx, results,
                   invoked, running, categories, lastEnv, timedOut, instance,
                   progress, heap, session, scans, summary>>

\* a healthy machine: every probe's commands answer with a compliant setting
HealthyEnv(p) ==
    CASE p = "SoftwareUpdatesCheck" -> [cmd |-> Cmd(0, <<"No new software available.">>)]
      [] p = "FirewallCheck" ->
            [cmd |-> Cmd(0, "Firewall is enabled. (State = 1)"),
             stealth |-> Cmd(0, "Stealth mode enabled")]
      [] p = "FileVaultCheck" -> [cmd |-> Cmd(0, "FileVault is On.")]
      [] p = "ScreenLockCheck" -> [cmd |-> Cmd(0, "600")]
      [] p = "SSHConfigCheck" ->
            [cmd |-> Cmd(0, "Remote Login: Off"), exists |-> TRUE,
             read |-> Returned({})]
      [] p = "CustomCheck" -> Returned("status" :> "CheckStatus.FAIL")

\* one result of each probe: the categories are those of the five probes
\* (FirewallCheck and SSHConfigCheck share "Network Security") and "Custom"
ViewPool == {run(Self(p), check(p, HealthyEnv(p)), 0).value : p \in Probes}

\* the results view rendered from a result list of any categories
InitView ==
    /\ results \in UNION {[1..n -> ViewPool] : n \in 0..MaxResults}
    /\ categories = <<>>
    /\ pc = "results"
    /\ stats = NoStats
    /\ now = 0
    /\ lastCheck = NoCall
    /\ NoSingleRun
    /\ NoScan
    /\ lastEnv = NoCall
    /\ timedOut = {}
    /\ instance = NoInstance
    /\ progress = <<>>
    /\ calls = 0
    /\ heap = <<>>
    /\ session = <<>>
    /\ scans = 0
    /\ summary = NoSummary

\* categories = {}; for result in results: ...
GroupByCategory ==
    /\ pc = "stats"
    /\ categories' = group_by_category(results)
    /\ pc' = "grouped"
    /\ UNCHANGED <<probe, lastCheck, lastRun, runs, now, checks, idx, results,
                   invoked, running, stats, lastEnv, timedOut, instance,
                   progress, calls, heap, session, scans, summary>>

\* the page is run again on the next interaction: main() starts over with
\* the result list of the session (`stats` keeps what the last call returned)
Rerun ==
    /\ pc = "grouped"
    /\ calls < MaxCalls
    /\ categories' = <<>>
    /\ pc' = "results"
    /\ UNCHANGED <<probe, lastCheck, lastRun, runs, now, checks, idx, results,
                   invoked, running, stats, lastEnv, timedOut, instance,
                   progress, calls, heap, session, scans, summary>>

NextStats == CalculateStats \/ GroupByCategory \/ Rerun

SpecStats == InitStats /\ [][NextStats]_vars

SpecView == InitView /\ [][NextStats]_vars

----------------------------------------------------------------------------
(* The two aggregations applied to one result list: the dashboard's        *)
(* calculate_stats and the summary the CLI prints.                         *)

\* test_all_checks.main: the summary table, 'Results:' and the score
PrintSummary ==
    /\ summary = NoSummary
    /\ summary' = main_summary(results)
    /\ UNCHANGED <<probe, lastCheck, lastRun, runs, now, checks, idx, results,
                   pc, invoked, running, stats, categories, lastEnv, timedOut,
                   instance, progress, calls, heap, session, scans>>

NextSummary == CalculateStats \/ PrintSummary

SpecSummary == InitStats /\ [][NextSummary]_vars

----------------------------------------------------------------------------

(* One probe run repeatedly by a caller that keeps the results and hands    *)
(* them to a consumer.  Here a Python list is an object: a field that holds *)
(* a list holds its address, and `heap` gives the contents at each address. *)
(* An assignment copies the address, never the contents.                    *)

\* the address n of a list object
Ref(n) == [ref |-> n]

\* the contents of the list at address a
Deref(a) == heap[a.ref]

\* self.compliance_frameworks = [...] in __init__: a new list object
InitShare ==
    /\ probe \in Probes
    /\ heap = <<Self(probe).compliance_frameworks>>
    /\ instance = [Self(probe) EXCEPT !.compliance_frameworks = Ref(1)]
    /\ results = <<>>
    /\ lastCheck = NoCall
    /\ lastRun = NoCall
    /\ lastEnv = NoCall
    /\ runs = 0
    /\ now = 0
    /\ pc = "constructed"
    /\ NoScan
    /\ NoAggregation
    /\ timedOut = {}
    /\ progress = <<>>
    /\ categories = <<>>
    /\ calls = 0
    /\ session = <<>>
    /\ scans = 0
    /\ summary = NoSummary

\* result = check.run(); results.append(result)
RunAndKeep ==
    /\ pc = "constructed"
    /\ runs < MaxRuns
    /\ \E env \in ScanEnvs(probe) :
          LET c == check(probe, env)
              r == run(instance, c, now)
          IN  /\ lastCheck' = c
              /\ lastRun' = r
              /\ IF r.kind = "return"
                 THEN results' = Append(results, r.value) /\ pc' = pc
                 ELSE results' = results /\ pc' = "aborted"
    /\ runs' = runs + 1
    /\ now' = now + 1
    /\ UNCHANGED <<probe, checks, idx, invoked, running, stats, categories,
                   lastEnv, timedOut, instance, progress, calls, heap,
                   session, scans, summary>>

\* a consumer of the results: results[i]['compliance_frameworks'].append(tag),
\* with a tag that names the result it was added to
ModifyResult ==
    /\ \E i \in 1..Len(results) :
          /\ "compliance_frameworks" \in DOMAIN results[i]
          /\ LET a == results[i].compliance_frameworks IN
                /\ Len(Deref(a)) = Len(Self(probe).compliance_frameworks)
                /\ heap' = [heap EXCEPT ![a.ref] = Append(@, "added to result " \o ToString(i))]
    /\ UNCHANGED <<probe, lastCheck, lastRun, runs, now, checks, idx, results,
                   pc, invoked, running, stats, categories, lastEnv, timedOut,
                   instance, progress, calls, session, scans, summary>>

NextShare == RunAndKeep \/ ModifyResult

SpecShare == InitShare /\ [][NextShare]_vars

----------------------------------------------------------------------------
(* The dashboard page: dashboard.main.  Streamlit runs main() once for each *)
(* interaction, with st.session_state kept between the runs.                *)

\* the probe's first command times out
StalledEnv(p) == [HealthyEnv(p) EXCEPT !.cmd = Raised("TimeoutExpired")]

\* the probe's first command is interrupted
InterruptedEnv(p) == [HealthyEnv(p) EXCEPT !.cmd = Raised("KeyboardInterrupt")]

\* the environments of a probe under the dashboard
SessionEnvs(p) == {HealthyEnv(p), StalledEnv(p), InterruptedEnv(p)}

\* the page has been run to its end or to an exception, and waits
Shown == {"info", "rendered", "render_failed", "interrupted"}

\* the first run of main(): the button is not clicked, nothing is in the
\* session
InitSession ==
    /\ session = <<>>
    /\ scans = 0
    /\ pc = "page"
    /\ checks = DashboardChecks
    /\ idx = 0
    /\ results = <<>>
    /\ invoked = <<>>
    /\ running = {}
    /\ timedOut = {}
    /\ progress = <<>>
    /\ now = 0
    /\ lastCheck = NoCall
    /\ lastEnv = NoCall
    /\ instance = NoInstance
    /\ NoSingleRun
    /\ NoAggregation
    /\ categories = <<>>
    /\ calls = 0
    /\ heap = <<>>
    /\ summary = NoSummary

\* if st.sidebar.button(...): st.session_state.scan_run = True, and
\* run_all_checks() is entered
Click ==
    /\ pc \in Shown
    /\ scans < MaxScans
    /\ scans' = scans + 1
    /\ session' = ("scan_run" :> TRUE) @@ session
    /\ pc' = "start"
    /\ idx' = 0
    /\ results' = <<>>
    /\ invoked' = <<>>
    /\ running' = {}
    /\ timedOut' = {}
    /\ progress' = <<>>
    /\ UNCHANGED <<probe, lastCheck, lastRun, runs, now, checks, stats,
                   categories, lastEnv, instance, calls, heap, summary>>

\* for idx, check in enumerate(checks): check.run() is entered and calls
\* self.check(), under the dashboard
SessionBeginRun ==
    /\ pc = "loop"
    /\ idx < Len(checks)
    /\ \E env \in SessionEnvs(checks[idx + 1]) :
          /\ lastCheck' = check(checks[idx + 1], env)
          /\ timedOut' = IF TimedOut(checks[idx + 1], env)
                          THEN timedOut \cup {idx + 1} ELSE timedOut
    /\ progress' = Append(progress, StatusText(idx + 1, Self(checks[idx + 1]).title))
    /\ invoked' = Append(invoked, idx + 1)
    /\ running' = running \cup {idx + 1}
    /\ pc' = "in_run"
    /\ UNCHANGED <<probe, lastRun, runs, now, checks, idx, results, stats,
                   categories, lastEnv, instance, calls, heap, session, scans,
                   summary>>

\* st.session_state.results = run_all_checks()
\* st.session_state.scan_time = datetime.now().strftime(...)
StoreResults ==
    /\ pc = "done"
    /\ session' = ("results" :> results) @@ ("scan_time" :> ToString(now)) @@ session
    /\ now' = now + 1
    /\ pc' = "page"
    /\ UNCHANGED <<probe, lastCheck, lastRun, runs, checks, idx, results,
                   invoked, running, stats, categories, lastEnv, timedOut,
                   instance, progress, calls, heap, scans, summary>>

\* an exception that run() did not catch leaves run_all_checks and main: this
\* run of the page ends
Interrupted ==
    /\ pc = "aborted"
    /\ pc' = "interrupted"
    /\ UNCHANGED <<probe, lastCheck, lastRun, runs, now, checks, idx, results,
                   invoked, running, stats, categories, lastEnv, timedOut,
                   instance, progress, calls, heap, session, scans, summary>>

\* an interaction other than the button: main() is run again
Reload ==
    /\ pc \in Shown
    /\ pc' = "page"
    /\ UNCHANGED <<probe, lastCheck, lastRun, runs, now, checks, idx, results,
                   invoked, running, stats, categories, lastEnv, timedOut,
                   instance, progress, calls, heap, session, scans, summary>>

\* if not hasattr(st.session_state, 'scan_run') or not st.session_state.scan_run:
\*     ...; return
\* results = st.session_state.results; ...; st.session_state.scan_time
\* (an attribute that is not set raises AttributeError)
RenderPage ==
    /\ pc = "page"
    /\ pc' = IF "scan_run" \notin DOMAIN session \/ ~session.scan_run THEN "info"
             ELSE IF {"results", "scan_time"} \subseteq DOMAIN session THEN "rendered"
             ELSE "render_failed"
    /\ UNCHANGED <<probe, lastCheck, lastRun, runs, now, checks, idx, results,
                   invoked, running, stats, categories, lastEnv, timedOut,
                   instance, progress, calls, heap, session, scans, summary>>

NextSession ==
    \/ Click \/ StartScan \/ SessionBeginRun \/ EndRun \/ ReturnResults
    \/ StoreResults \/ Interrupted \/ Reload \/ RenderPage

SpecSession == InitSession /\ [][NextSession]_vars

----------------------------------------------------------------------------
(* Properties of BaseCheck.run, checked under SpecRun *)

\* the keys both branches of run() put in the dict they return
CommonKeys ==
    {"id", "title", "description", "category", "severity", "status", "finding",
     "evidence", "risk", "remediation", "timestamp", "error"}

\* a run() has completed
HasRun == runs > 0

\* the latest run() returned a result dict
RunReturned == HasRun /\ lastRun.kind = "return"

\* exceptions that `except Exception as e: ... str(e)` does not turn into a
\* result: those outside the Exception hierarchy, and one whose str() raises
Escaping == {"KeyboardInterrupt", "SystemExit", "BrokenStrError"}

\* the latest check() returned a dict whose status, if any, has a .value, so
\* that the try block of run() completed
NormalOutcome ==
    /\ lastCheck.kind = "return"
    /\ ("status" \in DOMAIN lastCheck.value
            => lastCheck.value.status \in CheckStatusMembers \cup SeverityMembers)

\* C1 as claimed: whatever check() does (raises any exception, returns
\* None, returns an outcome whose status is missing or not a CheckStatus),
\* run() returns one CheckResult and raises nothing.
C1_AsClaimed ==
    HasRun => /\ lastRun.kind = "return"
              /\ CommonKeys \subseteq DOMAIN lastRun.value

\* C1 amended: run() returns one CheckResult and raises nothing whenever
\* check() returns anything or raises an exception that derives from
\* Exception and whose str() returns; a KeyboardInterrupt or SystemExit (or an
\* exception whose str() raises) leaves run() and no result is returned.
C1_RunIsolatesExceptions ==
    HasRun =>
        IF lastCheck.kind = "raise" /\ lastCheck.exc \in Escaping
        THEN lastRun.kind = "raise" /\ lastRun.exc = lastCheck.exc
        ELSE /\ lastRun.kind = "return"
             /\ CommonKeys \subseteq DOMAIN lastRun.value

\* C1 witness: check() returned None and run() returned an ERROR result
C1_Witness ==
    /\ HasRun
    /\ lastCheck.kind = "none"
    /\ lastRun.kind = "return"
    /\ lastRun.value.status = "ERROR"

\* C2: when check() raises, the result run() returns has status ERROR,
\* finding "Check execution failed", evidence null, remediation empty, a
\* non-null error that describes the fault, and a non-null timestamp.
C2_FaultResult ==
    (RunReturned /\ lastCheck.kind = "raise") =>
        /\ lastRun.value.status = "ERROR"
        /\ lastRun.value.finding = "Check execution failed"
        /\ lastRun.value.evidence = Null
        /\ lastRun.value.remediation = ""
        /\ lastRun.value.error # Null
        /\ lastRun.value.error = str(lastCheck.exc)
        /\ lastRun.value.timestamp # Null

\* C2 witness: check() raised a timeout and run() returned
C2_Witness ==
    /\ RunReturned
    /\ lastCheck.kind = "raise"
    /\ lastCheck.exc = "TimeoutExpired"

\* C7 as claimed: every result with status ERROR carries a non-null error,
\* also when check() itself returned status ERROR or no status.
C7_AsClaimed ==
    (RunReturned /\ lastRun.value.status = "ERROR") => lastRun.value.error # Null

\* C7 amended: a result has a non-null error exactly when run() took its
\* except branch (check() raised, returned a non-mapping, or gave a status
\* with no .value), and then its status is ERROR; a result whose status ERROR
\* came from a normally returned outcome (status ERROR, as in the handlers of
\* the five probes, or no 'status' key) has error = null.
C7_ErrorOnlyOnFaultPath ==
    RunReturned =>
        /\ (lastRun.value.error # Null <=> ~NormalOutcome)
        /\ (lastRun.value.error # Null => lastRun.value.status = "ERROR")
        /\ (NormalOutcome /\ "status" \notin DOMAIN lastCheck.value
                => lastRun.value.status = "ERROR")

\* C7 witness: a concrete probe's own handler returned status ERROR and the
\* result has no error description
C7_Witness ==
    /\ RunReturned
    /\ probe = "FirewallCheck"
    /\ lastRun.value.status = "ERROR"
    /\ lastRun.value.error = Null

\* C8 as claimed: when check() returns normally (a dict that run() can
\* read), finding is the outcome's (or "No finding recorded"), remediation is
\* the outcome's, or the probe's default when the key is absent or its value
\* is null, and error is null.
C8_AsClaimed ==
    (RunReturned /\ NormalOutcome) =>
        /\ lastRun.value.finding =
              (IF "finding" \in DOMAIN lastCheck.value
               THEN lastCheck.value.finding ELSE "No finding recorded")
        /\ lastRun.value.remediation =
              (IF "remediation" \in DOMAIN lastCheck.value
                    /\ lastCheck.value.remediation # Null
               THEN lastCheck.value.remediation ELSE Self(probe).remediation)
        /\ lastRun.value.error = Null

\* C8 amended: when check() returns a dict whose status is absent or has a
\* .value, finding is the value under 'finding' or "No finding recorded" if
\* the key is absent, remediation is the value under 'remediation' (null
\* included) or the probe's default if the key is absent, and error is null.
C8_DefaultsOnAbsentKey ==
    (RunReturned /\ NormalOutcome) =>
        /\ lastRun.value.finding =
              (IF "finding" \in DOMAIN lastCheck.value
               THEN lastCheck.value.finding ELSE "No finding recorded")
        /\ lastRun.value.remediation =
              (IF "remediation" \in DOMAIN lastCheck.value
               THEN lastCheck.value.remediation ELSE Self(probe).remediation)
        /\ lastRun.value.error = Null

\* C8 witness: an outcome with neither key got both defaults
C8_Witness ==
    /\ RunReturned
    /\ NormalOutcome
    /\ probe = "CustomCheck"
    /\ DOMAIN lastCheck.value = {"status"}
    /\ lastRun.value.finding = "No finding recorded"
    /\ lastRun.value.remediation = "Custom default remediation"

\* C9 as claimed: every result with status PASS has an empty risk.
C9_AsClaimed ==
    (RunReturned /\ lastRun.value.status = "PASS") => lastRun.value.risk = ""

\* C9 amended: run() copies the outcome's risk ('' if the key is absent), so
\* a PASS result has an empty risk only if the outcome has; on every PASS
\* branch of the five probes the risk is the text 'None', or 'Low - SSH is
\* configured with security best practices' for SSH enabled and secure.
C9_PassRiskIsOutcomeRisk ==
    (RunReturned /\ lastRun.value.status = "PASS") =>
        /\ lastRun.value.risk = get(lastCheck.value, "risk", "")
        /\ (probe \in ConcreteProbes =>
                lastRun.value.risk \in
                    {"None", "Low - SSH is configured with security best practices"})
        /\ (lastRun.value.risk # "None" /\ probe \in ConcreteProbes
                => probe = "SSHConfigCheck")

\* C9 witness: the SSH probe passed with a 'Low' risk text
C9_Witness ==
    /\ RunReturned
    /\ probe = "SSHConfigCheck"
    /\ lastRun.value.status = "PASS"
    /\ lastRun.value.risk = "Low - SSH is configured with security best practices"

\* C10 as claimed: every result with status FAIL has a non-empty risk, also
\* when the outcome omits the 'risk' key.
C10_AsClaimed ==
    (RunReturned /\ lastRun.value.status = "FAIL") => lastRun.value.risk # ""

\* C10 amended: a FAIL result's risk is the outcome's risk, non-empty on
\* every FAIL branch of the five probes; when the outcome omits 'risk' (or
\* gives an empty one) the result's risk is the empty string.
C10_FailRiskIsOutcomeRisk ==
    (RunReturned /\ lastRun.value.status = "FAIL") =>
        /\ lastRun.value.risk = get(lastCheck.value, "risk", "")
        /\ (probe \in ConcreteProbes => lastRun.value.risk \notin {"", "None"})
        /\ ("risk" \notin DOMAIN lastCheck.value => lastRun.value.risk = "")

\* C10 witness: the screen-lock probe failed and its result carries the risk
C10_Witness ==
    /\ RunReturned
    /\ probe = "ScreenLockCheck"
    /\ lastRun.value.status = "FAIL"
    /\ lastRun.value.risk # ""

----------------------------------------------------------------------------
(* Properties of the scan, checked under Spec and FairSpec *)

\* C3: the result list the scan returns is as long as the probe list and its
\* i-th result is that of the i-th probe; while the scan runs, the results so
\* far are those of the first idx probes.
C3_ResultsFollowProbes ==
    /\ Len(results) = idx
    /\ Len(results) <= Len(checks)
    /\ \A i \in 1..Len(results) : results[i].id = Self(checks[i]).id
    /\ (pc = "done" => Len(results) = Len(checks))

\* C3 witness: a scan of two different probes returned, the first result an
\* ERROR and the second a FAIL
C3_Witness ==
    /\ pc = "done"
    /\ Len(checks) = 2
    /\ checks[1] # checks[2]
    /\ results[1].status = "ERROR"
    /\ results[2].status = "FAIL"

\* check() is invoked on the probes in declaration order, each at most once
InvokedInOrder == \A k \in 1..Len(invoked) : invoked[k] = k

\* at most one run() is in progress, that of the probe invoked last, and
\* every probe before it has returned its result
OneAtATime ==
    /\ Cardinality(running) <= 1
    /\ (running # {} => running = {Len(invoked)} /\ Len(results) = Len(invoked) - 1)

\* a scan that has returned has invoked every probe
AllInvokedWhenDone == pc = "done" => Len(invoked) = Len(checks)

\* C4 as claimed: every probe's check() is invoked once, in order, one at a
\* time, and no probe that fails or faults stops the scan: the scan is never
\* left before all probes have run.
C4_AsClaimed ==
    /\ InvokedInOrder
    /\ OneAtATime
    /\ AllInvokedWhenDone
    /\ pc # "aborted"

\* C4 amended: every probe's check() is invoked once, in order, one at a
\* time; a probe that fails, or faults with an exception that derives from
\* Exception (and whose str() returns), never prevents a later probe from
\* being invoked; the scan always ends, either returned with all probes run
\* or left by a KeyboardInterrupt or SystemExit (or an exception whose str()
\* raises) that a check() raised.
C4_ScanRunsEveryProbe ==
    /\ [](InvokedInOrder /\ OneAtATime /\ AllInvokedWhenDone)
    /\ [](pc = "aborted" => lastRun.kind = "raise" /\ lastRun.exc \in Escaping)
    /\ <>(pc = "done" \/ pc = "aborted")

\* C4 witness: the first probe faulted, the second failed, and the scan
\* still returned with both run
C4_Witness ==
    /\ pc = "done"
    /\ invoked = <<1, 2>>
    /\ results[1].error # Null
    /\ results[2].status = "FAIL"

----------------------------------------------------------------------------
(* Properties of calculate_stats, checked under SpecStats *)

\* the positions of the results with a status
WithStatus(status) == {i \in 1..Len(results) : results[i].status = status}

\* s is passed/total*100 to the nearest tenth (in tenths), an exact half
\* going to the even tenth
IsRoundedPercent(s, passed, total) ==
    LET d == s * total - passed * 1000
        dist == IF d < 0 THEN -d ELSE d
    IN  /\ 2 * dist <= total
        /\ (2 * dist = total => s % 2 = 0)

\* C5: compliance_score is 0 for an empty list, 100.0 when every result is
\* PASS, 0.0 when every result is FAIL, and otherwise passed/total*100 rounded
\* to one decimal place.
C5_ComplianceScore ==
    pc = "stats" =>
        LET total == Len(results)
            passed == Cardinality(WithStatus("PASS"))
        IN  /\ (total = 0 => stats.compliance_score = 0)
            /\ (total > 0 /\ passed = total => stats.compliance_score = 1000)
            /\ (total > 0 /\ Cardinality(WithStatus("FAIL")) = total
                    => stats.compliance_score = 0)
            /\ (total > 0 => IsRoundedPercent(stats.compliance_score, passed, total))

\* C5 witness: one PASS among three results scores 33.3
C5_Witness ==
    /\ pc = "stats"
    /\ Len(results) = 3
    /\ Cardinality(WithStatus("PASS")) = 1
    /\ stats.compliance_score = 333

\* C6: passed + failed + warnings <= total, with equality only when no
\* result is ERROR or NOT_APPLICABLE; those results count in total and in
\* none of passed, failed, warnings.
C6_CountsPartition ==
    pc = "stats" =>
        /\ stats.total = Len(results)
        /\ stats.passed = Cardinality(WithStatus("PASS"))
        /\ stats.failed = Cardinality(WithStatus("FAIL"))
        /\ stats.warnings = Cardinality(WithStatus("WARNING"))
        /\ stats.passed + stats.failed + stats.warnings <= stats.total
        /\ (stats.passed + stats.failed + stats.warnings = stats.total
                => WithStatus("ERROR") \cup WithStatus("NOT_APPLICABLE") = {})
        /\ stats.total - (stats.passed + stats.failed + stats.warnings)
                >= Cardinality(WithStatus("ERROR") \cup WithStatus("NOT_APPLICABLE"))

\* C6 witness: a list with an ERROR and a NOT_APPLICABLE result, whose counts
\* fall short of total by two
C6_Witness ==
    /\ pc = "stats"
    /\ WithStatus("ERROR") # {}
    /\ WithStatus("NOT_APPLICABLE") # {}
    /\ WithStatus("PASS") # {}
    /\ stats.passed + stats.failed + stats.warnings = stats.total - 2

----------------------------------------------------------------------------
(* The field set of a result, checked under SpecRun *)

\* the static fields of a probe that a CheckResult copies
StaticKeys ==
    {"id", "title", "description", "category", "severity",
     "compliance_frameworks"}

\* the fields a CheckResult carries besides the static ones
DynamicKeys ==
    {"status", "finding", "evidence", "risk", "remediation", "timestamp",
     "error"}

\* C11 as claimed: every result run() returns has the same set of fields,
\* whether check() returned normally or faulted: id, title, description,
\* category, severity, compliance_frameworks, status, finding, evidence,
\* risk, remediation, timestamp and error.
C11_AsClaimed ==
    RunReturned => DOMAIN lastRun.value = StaticKeys \cup DynamicKeys

----------------------------------------------------------------------------
(* The category grouping, checked under SpecView *)

\* the lists of a grouping, one after the other
RECURSIVE Concat(_)
Concat(d) == IF Len(d) = 0 THEN <<>> ELSE Head(d)[2] \o Concat(Tail(d))

\* how many times r occurs in the list rs
Occurrences(rs, r) == Cardinality({i \in 1..Len(rs) : rs[i] = r})

\* the position at which category cat is first seen in rs
FirstSeen(rs, cat) ==
    CHOOSE i \in 1..Len(rs) :
        /\ rs[i].category = cat
        /\ \A j \in 1..(i - 1) : rs[j].category # cat

\* the results of category cat, in their order in rs
OfCategory(rs, cat) == SelectSeq(rs, LAMBDA r : r.category = cat)

\* C12: the category grouping of a result list is an order-preserving
\* partition: each group holds only results of its key's category, the
\* groups concatenated are a permutation of the list (nothing lost or
\* duplicated), the groups appear in first-seen category order, the results
\* inside a group keep their relative order, and an empty list gives an
\* empty grouping.
C12_GroupingIsOrderedPartition ==
    pc = "grouped" =>
        LET d == categories
            all == Concat(d)
        IN  /\ \A i \in 1..Len(d) : \A j \in 1..Len(d[i][2]) :
                  d[i][2][j].category = d[i][1]
            /\ Len(all) = Len(results)
            /\ \A r \in ViewPool : Occurrences(all, r) = Occurrences(results, r)
            /\ \A i, j \in 1..Len(d) : i # j => d[i][1] # d[j][1]
            /\ \A i, j \in 1..Len(d) :
                  i < j => FirstSeen(results, d[i][1]) < FirstSeen(results, d[j][1])
            /\ \A i \in 1..Len(d) : d[i][2] = OfCategory(results, d[i][1])
            /\ (results = <<>> => d = <<>>)

\* C12 witness: a grouped list whose categories interleave, with a category
\* seen twice and a result that occurs twice
C12_Witness ==
    /\ pc = "grouped"
    /\ Len(results) = 4
    /\ Len(categories) = 2
    /\ results[1].category = results[3].category
    /\ results[1].category # results[2].category
    /\ results[1] # results[3]
    /\ results[2] = results[4]

----------------------------------------------------------------------------
(* The probes' own failure handling, checked under SpecRun *)

\* the latest check() ran in an environment of a concrete probe
ConcreteRun == HasRun /\ probe \in ConcreteProbes

\* a command completion that is a fault of the environment: the command
\* timed out, could not be started, or was denied
Faulted(c) == c.kind = "raise" /\ IsException(c.exc)

\* the probe's interaction with the environment gave no verdict: a command it
\* reached faulted, or its output is missing or not one the probe knows
NoVerdict(p, env) ==
    CASE p = "SoftwareUpdatesCheck" ->
            \/ Faulted(env.cmd)
            \/ /\ env.cmd.kind = "return"
               /\ ~ReportsUpToDate(env.cmd.value.stdout)
               /\ Len(_parse_updates(env.cmd.value.stdout)) = 0
      [] p = "FirewallCheck" ->
            \/ Faulted(env.cmd)
            \/ env.cmd.kind = "return" /\ env.cmd.value.stdout = ""
            \/ /\ env.cmd.kind = "return"
               /\ SaysEnabled(env.cmd.value.stdout)
               /\ Faulted(env.stealth)
      [] p = "FileVaultCheck" ->
            \/ Faulted(env.cmd)
            \/ env.cmd.kind = "return" /\ env.cmd.value.stdout = ""
      [] p = "ScreenLockCheck" ->
            \/ Faulted(env.cmd)
            \/ /\ env.cmd.kind = "return"
               /\ \/ env.cmd.value.returncode # 0
                  \/ IntRaises(env.cmd.value.stdout)
      [] p = "SSHConfigCheck" ->
            \/ Faulted(env.cmd)
            \/ env.cmd.kind = "return" /\ env.cmd.value.stdout = ""
            \/ /\ env.cmd.kind = "return"
               /\ SaysOn(env.cmd.value.stdout)
               /\ env.exists
               /\ Faulted(env.read)

\* C13 as claimed: a concrete probe whose interaction with the environment
\* gives no verdict (timeout, parse failure, permission denial, missing or
\* unexpected output) yields a result with status ERROR, never PASS, FAIL or
\* WARNING.
C13_AsClaimed ==
    (ConcreteRun /\ RunReturned /\ NoVerdict(probe, lastEnv))
        => lastRun.value.status = "ERROR"

----------------------------------------------------------------------------
(* Command timeouts in a scan, checked under Spec *)

\* C14: a timeout of any external command a probe starts (the stealth-mode
\* command of the firewall probe included) becomes that probe's result, with
\* status ERROR: the timeout never leaves run(), so it never ends the scan,
\* and the probes after it are still executed.
C14_TimeoutBecomesErrorResult ==
    /\ \A i \in timedOut :
          /\ i \in running \/ i <= Len(results)
          /\ i <= Len(results) =>
                /\ results[i].status = "ERROR"
                /\ results[i].id = Self(checks[i]).id
    /\ pc = "aborted" => Len(invoked) \notin timedOut
    /\ (pc = "loop" /\ idx \in timedOut /\ idx < Len(checks)) => ENABLED BeginRun
    /\ pc = "done" => Len(invoked) = Len(checks)

\* C14 witness: in a completed scan of the five probes the first two probes
\* met a timeout and a later probe passed
C14_Witness ==
    /\ pc = "done"
    /\ checks = DashboardChecks
    /\ timedOut = {1, 2}
    /\ results[2].finding = "Could not check firewall status"
    /\ results[5].status = "PASS"

----------------------------------------------------------------------------
(* NOT_APPLICABLE results in the score, checked under SpecStats *)

\* a result with status NOT_APPLICABLE, as run() returns it
NotApplicableResult ==
    run(CustomCheck_init, Returned("status" :> "CheckStatus.NOT_APPLICABLE"), 0).value

\* the statistics of the result list with a NOT_APPLICABLE result added
StatsWithNotApplicable == calculate_stats(Append(results, NotApplicableResult))

\* C15 as claimed: adding a NOT_APPLICABLE result to a result list increases
\* total by one and leaves compliance_score unchanged (the result is in
\* neither the numerator nor the denominator of the score).
C15_AsClaimed ==
    pc = "stats" =>
        /\ StatsWithNotApplicable.total = stats.total + 1
        /\ StatsWithNotApplicable.compliance_score = stats.compliance_score

\* C15 amended: a NOT_APPLICABLE result is in total and in the denominator of
\* the score, and not in its numerator: adding one increases total by one,
\* leaves passed, failed and warnings unchanged, and makes compliance_score
\* passed/(total+1)*100 rounded to one decimal, which is never above the
\* score before and is 0 when no result is PASS.
C15_NotApplicableIsInDenominator ==
    pc = "stats" =>
        LET after == StatsWithNotApplicable IN
        /\ after.total = stats.total + 1
        /\ after.passed = stats.passed
        /\ after.failed = stats.failed
        /\ after.warnings = stats.warnings
        /\ IsRoundedPercent(after.compliance_score, stats.passed, stats.total + 1)
        /\ after.compliance_score <= stats.compliance_score
        /\ (stats.passed = 0 => after.compliance_score = 0)

\* C15 witness: statistics of two PASS results (score 100.0), to which a
\* NOT_APPLICABLE result gives the score 66.7
C15_Witness ==
    /\ pc = "stats"
    /\ stats.total = 2
    /\ stats.passed = 2
    /\ stats.compliance_score = 1000
    /\ StatsWithNotApplicable.compliance_score = 667

----------------------------------------------------------------------------
(* The identity fields of a result, checked under SpecRun *)

\* the identity fields of a result, as the probe declares them
Identity(self) ==
    [id |-> self.id,
     title |-> self.title,
     description |-> self.description,
     category |-> self.category,
     severity |-> EnumValue(self.severity)]

\* the identity fields a result reports
ReportedIdentity(r) ==
    [id |-> r.id,
     title |-> r.title,
     description |-> r.description,
     category |-> r.category,
     severity |-> r.severity]

\* C16: the identity fields of a result (id, title, description, category,
\* severity) equal the values the probe declared at construction, on the
\* normal and on the fault path and whatever the outcome of check() contains;
\* run() leaves the probe's static metadata unchanged, so successive run()
\* calls on one probe report the same identity fields.
C16_IdentityIsDeclared ==
    /\ [](RunReturned => ReportedIdentity(lastRun.value) = Identity(Self(probe)))
    /\ [](instance = Self(probe))
    /\ [][(RunReturned /\ RunReturned')
            => ReportedIdentity(lastRun'.value) = ReportedIdentity(lastRun.value)]_vars

\* C16 witness: the second run() of a probe, whose outcome carries an 'id' of
\* its own, returned a result
C16_Witness ==
    /\ runs = 2
    /\ RunReturned
    /\ lastCheck.kind = "return"
    /\ "id" \in DOMAIN lastCheck.value
    /\ lastCheck.value.id # Self(probe).id
    /\ lastRun.value.error = Null

----------------------------------------------------------------------------
(* The progress notifications of a scan, checked under Spec *)

\* what the widgets were told in iteration k of the loop
ToldAt(k) == SelectSeq(progress, LAMBDA e : e.at = k)

\* C17 as claimed: the progress observer is notified once per probe, before
\* that probe's run() is invoked, with the probe's index, the total number
\* of probes and the probe's title, in declaration order; nothing is told
\* about probe i after probe i has run.
C17_AsClaimed ==
    /\ \A k \in 1..Len(invoked) :
          ToldAt(k) = <<[at |-> k, index |-> k - 1, total |-> Len(checks),
                         title |-> Self(checks[k]).title]>>
    /\ \A k \in 1..Len(checks) : k > Len(invoked) => ToldAt(k) = <<>>

\* the notifications of iteration k: the status text before run(), and the
\* progress bar once run() has returned and its result is in the list
Iteration(k) ==
    <<StatusText(k, Self(checks[k]).title)>>
    \o (IF k <= Len(results)
        THEN <<ProgressBar(k, Fraction(k, Len(checks)))>> ELSE <<>>)

RECURSIVE Iterations(_)
Iterations(n) == IF n = 0 THEN <<>> ELSE Iterations(n - 1) \o Iteration(n)

\* C17 amended: before each probe's run() is invoked, in declaration order,
\* the status text is set once to "Running: <title>..." (it carries neither
\* the index nor the total); after that run() has returned and its result is
\* appended, the progress bar is set once to the fraction (index+1)/total.
\* The bar is created at 0 before the loop and both widgets are emptied when
\* the scan returns; nothing else is told.
C17_ProgressProtocol ==
    progress =
        (IF pc = "start" THEN <<>> ELSE <<ProgressBar(0, <<0, 1>>)>>)
        \o Iterations(Len(invoked))
        \o (IF pc = "done"
            THEN <<Emptied("status_text"), Emptied("progress_bar")>> ELSE <<>>)

\* C17 witness: the scan of the five probes has returned; the bar was set to
\* 2/5 after the second probe and to 1 after the last
C17_Witness ==
    /\ pc = "done"
    /\ checks = DashboardChecks
    /\ Len(progress) = 13
    /\ progress[5] = ProgressBar(2, <<2, 5>>)
    /\ progress[11] = ProgressBar(5, <<1, 1>>)

----------------------------------------------------------------------------
(* Repeated aggregation of one result list, checked under SpecStats *)

----------------------------------------------------------------------------
(* The independence of results, checked under SpecShare *)

\* the frameworks added to the list that result j holds
AddedTo(j) ==
    LET l == Deref(results[j].compliance_frameworks)
        n == Len(Self(probe).compliance_frameworks)
    IN  {l[k] : k \in (n + 1)..Len(l)}

\* C19 as claimed: each run() returns an independent value; no mutable part
\* of a result (its compliance_frameworks list) is shared with the probe's
\* metadata or with another result, so modifying one result alters neither
\* the probe nor any other result: the probe's frameworks stay as declared,
\* and a result's list holds nothing that was added to another result.
C19_AsClaimed ==
    /\ Deref(instance.compliance_frameworks) = Self(probe).compliance_frameworks
    /\ \A j \in 1..Len(results) :
          "compliance_frameworks" \in DOMAIN results[j] =>
              AddedTo(j) \subseteq {"added to result " \o ToString(j)}

----------------------------------------------------------------------------
(* The results view of the dashboard, checked under SpecSession *)

\* main() passed the scan_run test and went on to the results view
AtResultsView == pc \in {"rendered", "render_failed"}

\* C20 as claimed: across any sequence of page runs and clicks of 'Run
\* Security Scan', whenever scan_run is true where the results are rendered,
\* the session's results and scan_time are set and results is the complete
\* list of the most recent scan, one result per probe, also when a scan was
\* interrupted after scan_run was set.
C20_AsClaimed ==
    AtResultsView =>
        /\ {"results", "scan_time"} \subseteq DOMAIN session
        /\ session.results = results
        /\ Len(session.results) = Len(checks)
        /\ \A i \in 1..Len(checks) : session.results[i].id = Self(checks[i]).id

(* C21 *)

\* the number of results whose status is not PASS, FAIL or WARNING
OtherStatuses(rs) ==
    Cardinality({i \in 1..Len(rs) : rs[i].status \notin {"PASS", "FAIL", "WARNING"}})

\* C21: once the dashboard's calculate_stats and the CLI summary have both
\* aggregated the same result list, they hold the same total, passed, failed
\* and warning counts, the score the CLI prints is the dashboard's score
\* written with one decimal (0 and "0.0" for the empty list), and in both a
\* result whose status is not PASS, FAIL or WARNING is counted in the total
\* and in no other count.
C21_AggregationsAgree ==
    (pc = "stats" /\ summary # NoSummary) =>
        /\ summary.total = stats.total
        /\ summary.passed = stats.passed
        /\ summary.failed = stats.failed
        /\ summary.warnings = stats.warnings
        /\ summary.compliance_score = Decimal1(stats.compliance_score)
        /\ Len(results) = 0 =>
              stats.compliance_score = 0 /\ summary.compliance_score = "0.0"
        /\ stats.total - (stats.passed + stats.failed + stats.warnings)
              = OtherStatuses(results)
        /\ summary.total - (summary.passed + summary.failed + summary.warnings)
              = OtherStatuses(results)

\* C21 witness: both aggregations have run on a list of one PASS, one FAIL
\* and one result of another status, and the CLI printed 33.3
C21_Witness ==
    /\ pc = "stats"
    /\ summary # NoSummary
    /\ Len(results) = 3
    /\ summary.passed = 1
    /\ summary.failed = 1
    /\ summary.warnings = 0
    /\ OtherStatuses(results) = 1
    /\ summary.compliance_score = "33.3"

----------------------------------------------------------------------------

====
